---------------------------- MODULE Spec2Model ----------------------------
(***************************************************************************)
(* Training loops of PyMIC's semi-supervised agent (SSLSegAgent,           *)
(* pymic/net_run_ssl/ssl_em.py) and weakly-supervised agent                *)
(* (WSL_MumfordShah, pymic/net_run_wsl/wsl_mumford_shah.py).               *)
(*                                                                         *)
(* training() is modelled statement group by statement group: a program    *)
(* counter pc walks the loop body, the locals of training() are variables, *)
(* and the collaborators (data loaders, network, optimizer, scheduler,     *)
(* loss functions) are mocks that record how they are called.              *)
(*                                                                         *)
(* Floats are fixed-point integers in units of 1/WUnit; a quotient that    *)
(* Python leaves as a float (sum / iter_valid, means) is an exact          *)
(* fraction <<numerator, denominator>> in lowest terms.                    *)
(***************************************************************************)
EXTENDS Integers, Sequences, FiniteSets, TLC

\* ------------------------------------------------------------- bounds
MaxData      == 3    \* samples in a training set
MaxBatch     == 2    \* configured batch size
MaxIterValid == 3    \* training.iter_valid
MaxClass     == 2    \* network.class_num
MaxEpochs    == 2    \* epochs the driver runs under Spec
MaxIterSup   == 3    \* largest configured iter_sup
MaxRamp      == 4    \* largest configured ramp_up_length
MaxIterMax   == 5    \* largest training.iter_max under SpecSched
MaxStep      == 4    \* |current| handed to the ramp-up function under SpecRampup

\* ------------------------------------------------------------- values
None   == -888888    \* Python None (a value no configured integer takes)
Tensor == "tensor"   \* the network returns one prediction tensor
Tuple  == "tuple"    \* the network returns a tuple of prediction tensors
SSL    == "SSLSegAgent"
WSL    == "WSL_MumfordShah"

WUnit == 10000       \* fixed-point 1.0
NaN   == -999999     \* float nan: what x / 0 gives on numpy scalars

Min(a, b) == IF a < b THEN a ELSE b

\* ------------------------------------------------------------- float arithmetic
FMul(a, b) == IF a = NaN \/ b = NaN THEN NaN ELSE (a * b) \div WUnit
FDiv(a, b) == IF a = NaN \/ b = NaN \/ b = 0 THEN NaN ELSE (a * WUnit) \div b
FSub(a, b) == IF a = NaN \/ b = NaN THEN NaN ELSE a - b

\* exp(-y) for 0 <= y <= 1/3 (fixed point), by its Taylor polynomial of degree 4
ExpTaylor(y) ==
    LET y2 == FMul(y, y)
        y3 == FMul(y2, y)
        y4 == FMul(y3, y)
    IN  WUnit - y + (y2 \div 2) - (y3 \div 6) + (y4 \div 24)

Square(a) == FMul(a, a)

\* np.exp(-x) for 0 <= x <= 5 (fixed point): exp(-x) = exp(-x/16)^16
NpExpNeg(x) ==
    IF x = NaN THEN NaN
    ELSE Square(Square(Square(Square(ExpTaylor(x \div 16)))))

\* np.clip(v, lo, hi)
NpClip(v, lo, hi) == IF v < lo THEN lo ELSE IF v > hi THEN hi ELSE v

\* ------------------------------------------------------------- ramp-up
\* a plausible slip: the zero length is not caught, and the division runs
get_consistency_weight_with_rampup_nozero(w0, current, rampup_length) ==
    IF rampup_length = None THEN w0
    ELSE LET cur   == NpClip(current, 0, rampup_length)
             phase == FSub(WUnit, FDiv(cur, rampup_length))
         IN  FMul(w0, NpExpNeg(IF phase = NaN THEN NaN ELSE 5 * FMul(phase, phase)))

\* SSLSegAgent.get_consistency_weight_with_rampup
get_consistency_weight_with_rampup(w0, current, rampup_length) ==
    IF rampup_length = None \/ rampup_length = 0 THEN w0
    ELSE LET cur   == NpClip(current, 0, rampup_length)
             phase == FSub(WUnit, FDiv(cur, rampup_length))
         IN  FMul(w0, NpExpNeg(IF phase = NaN THEN NaN ELSE 5 * FMul(phase, phase)))

\* pymic.util.ramps.sigmoid_rampup: the same curve, without the base weight
sigmoid_rampup(current, rampup_length) ==
    IF rampup_length = 0 THEN WUnit
    ELSE LET cur   == NpClip(current, 0, rampup_length)
             phase == FSub(WUnit, FDiv(cur, rampup_length))
         IN  NpExpNeg(IF phase = NaN THEN NaN ELSE 5 * FMul(phase, phase))

\* ------------------------------------------------------------- fractions
RECURSIVE GCD(_, _)
GCD(a, b) == IF b = 0 THEN a ELSE GCD(b, a % b)

\* a / b as Python's true division leaves it: the exact quotient
TrueDiv(a, b) ==
    IF b = 0 THEN <<NaN, 1>>
    ELSE LET g == GCD(a, b) IN IF g = 0 THEN <<0, 1>> ELSE <<a \div g, b \div g>>

RatAdd(x, y) == TrueDiv(x[1] * y[2] + y[1] * x[2], x[2] * y[2])
RatDiv(x, n) == TrueDiv(x[1], x[2] * n)

RECURSIVE RatSum(_)
RatSum(xs) == IF xs = <<>> THEN <<0, 1>> ELSE RatAdd(xs[1], RatSum(Tail(xs)))

\* ------------------------------------------------------------- configuration
\* dict.get(key, default)
Get(d, key, default) == IF key \in DOMAIN d THEN d[key] ELSE default

Unset == -777777     \* marks a key left out of a configuration section

\* a configuration section holding the keys that are set
Section(keys, val) == [k \in {x \in keys : val[x] # Unset} |-> val[k]]

WeightKey(v) == IF v = SSL THEN "consis_w" ELSE "regularize_w"
SectionOf(cfg) ==
    IF "semi_supervised_learning" \in DOMAIN cfg
    THEN cfg.semi_supervised_learning ELSE cfg.weakly_supervised_learning

MakeConfig(v, class_num, iter_valid, iter_max, sec) ==
    IF v = SSL
    THEN [network  |-> [class_num |-> class_num],
          training |-> [iter_valid |-> iter_valid, iter_max |-> iter_max],
          semi_supervised_learning |-> sec]
    ELSE [network  |-> [class_num |-> class_num],
          training |-> [iter_valid |-> iter_valid, iter_max |-> iter_max],
          weakly_supervised_learning |-> sec]

\* ------------------------------------------------------------- data loaders
\* Samples are integers: i for the i-th labeled (or weakly labeled) sample,
\* 101 + i for the i-th unlabeled one.  Shuffling decides which samples a
\* batch holds, not how many batches an iterator yields nor their sizes:
\* an iterator yields ceil(size / batch_size) batches, the last one short.
LabeledSample(i)   == i
UnlabeledSample(i) == 101 + i

\* torch.utils.data.DataLoader(dataset, batch_size): its batches, in order
DataLoader(first, size, batch_size) ==
    [k \in 1..((size + batch_size - 1) \div batch_size) |->
        [j \in 1..Min(batch_size, size - (k - 1) * batch_size) |->
            first + (k - 1) * batch_size + j]]

\* iter(loader): a cursor that has yielded nothing yet
Iter(name) == [loader |-> name, pos |-> 0]

\* the label (class index) of a sample, as the dataset holds it
LabelOf(s, class_num) == s % class_num

\* ------------------------------------------------------------- network
\* The mock network: row i of its output is computed from row i of its input.
\* A row holds the input sample it was computed from, the arg-max class and
\* whether the soft-max is uncertain (1) or confident (0); the prediction
\* changes with every optimizer step (version).
NetRow(n, s, class_num) ==
    [of  |-> s,
     cls |-> (s * (1 + n.seed) + n.version) % class_num,
     ent |-> (s + n.version) % 2]

AuxRow(r, class_num) ==
    [of |-> r.of, cls |-> (r.cls + 1) % class_num, ent |-> 1 - r.ent]

\* self.net(inputs): a tensor, or a tuple (primary head, auxiliary head)
NetForward(n, xs, class_num) ==
    LET head == [i \in 1..Len(xs) |-> NetRow(n, xs[i], class_num)]
    IN  IF n.kind = Tensor
        THEN [kind |-> Tensor, rows |-> head]
        ELSE [kind |-> Tuple,
              heads |-> <<head, [i \in 1..Len(head) |-> AuxRow(head[i], class_num)]>>]

VARIABLES
    variant,            \* the agent's class
    config,             \* self.config
    train_loader,       \* self.train_loader
    train_loader_unlab, \* self.train_loader_unlab
    net,                \* self.net
    glob_it,            \* self.glob_it
    trainIter,          \* self.trainIter
    trainIter_unlab,    \* self.trainIter_unlab
    pc,                 \* where the agent stands
    it,                 \* training(): the loop variable
    data_lab,           \* data_lab (data in the weak variant)
    data_unlab,         \* data_unlab
    inputs,             \* inputs
    outputs,            \* outputs
    p0,                 \* p0
    p1,                 \* p1
    loss_sup,           \* loss_sup
    loss_unsup,         \* loss_unsup (loss_reg in the weak variant)
    ramp_up_length,     \* ramp_up_length
    consis_w,           \* consis_w (regular_w in the weak variant)
    loss,               \* loss
    train_loss,         \* train_loss
    train_loss_sup,     \* train_loss_sup
    train_loss_unsup,   \* train_loss_unsup (train_loss_reg in the weak variant)
    train_dice_list,    \* train_dice_list
    train_scalers,      \* the record training() returns
    calls,              \* mocks: the calls of the current step, in order
    counts,             \* mocks: calls and batches pulled in the current epoch
    steps,              \* mocks: what each finished step of the epoch applied
    fn                  \* a single call of the ramp-up function (SpecRampup)

cfgVars   == <<variant, config, train_loader, train_loader_unlab>>
iterVars  == <<trainIter, trainIter_unlab>>
localVars == <<data_lab, data_unlab, inputs, outputs, p0, p1, loss_sup,
               loss_unsup, ramp_up_length, consis_w, loss>>
accVars   == <<train_loss, train_loss_sup, train_loss_unsup, train_dice_list>>
mockVars  == <<calls, counts, steps>>
vars == <<cfgVars, net, glob_it, iterVars, pc, it, localVars, accVars,
          train_scalers, mockVars, fn>>

\* ------------------------------------------------------------- collaborators
Primary(pred) == IF pred.kind = Tensor THEN pred.rows ELSE pred.heads[1]

\* the configured segmentation loss of one prediction tensor against labels:
\* the share of samples whose class differs from the label
SegLoss(rows, y) ==
    IF Len(rows) = 0 THEN 0
    ELSE (WUnit * Cardinality({i \in DOMAIN rows :
                                 i \notin DOMAIN y \/ rows[i].cls # y[i]}))
         \div Len(rows)

\* SegmentationAgent.get_loss_value: a tuple of heads is consumed whole
get_loss_value(pred, y) ==
    IF pred.kind = Tensor THEN SegLoss(pred.rows, y)
    ELSE SegLoss(pred.heads[1], y) + SegLoss(pred.heads[2], y)

\* pymic.loss.seg.ssl.EntropyLoss: the share of uncertain rows of the prediction
EntropyLoss(pred) ==
    LET rows == Primary(pred)
    IN  IF Len(rows) = 0 THEN 0
        ELSE (WUnit * Cardinality({i \in DOMAIN rows : rows[i].ent = 1}))
             \div Len(rows)

\* pymic.loss.seg.mumford_shah.MumfordShahLoss: read from prediction and image
MumfordShahLoss(pred, image) ==
    LET rows == Primary(pred)
    IN  IF Len(rows) = 0 THEN 0
        ELSE (WUnit * Cardinality({i \in DOMAIN rows :
                                     rows[i].ent = 1 /\ image[i] % 2 = 1}))
             \div Len(rows)

\* argmax, get_soft_label, reshape_prediction_and_ground_truth and
\* get_classwise_dice: entry c is the Dice of class c - 1
get_classwise_dice(rows, y, class_num) ==
    [c \in 1..class_num |->
        LET P == {i \in DOMAIN rows : rows[i].cls = c - 1}
            G == {i \in DOMAIN y : y[i] = c - 1}
        IN  IF P \cup G = {} THEN <<1, 1>>
            ELSE TrueDiv(2 * Cardinality(P \cap G), Cardinality(P) + Cardinality(G))]

\* torch.tensor_split(outputs, [n0,], dim = 0); a tuple is no Tensor
tensor_split(pred, n0) ==
    IF pred.kind # Tensor THEN [error |-> "TypeError", parts |-> <<>>]
    ELSE [error |-> "",
          parts |-> <<[kind |-> Tensor, rows |-> SubSeq(pred.rows, 1, n0)],
                      [kind |-> Tensor,
                       rows |-> SubSeq(pred.rows, n0 + 1, Len(pred.rows))]>>]

\* np.asarray(train_dice_list).mean(axis = 0)
MeanAxis0(dice_list, class_num) ==
    [c \in 1..class_num |->
        RatDiv(RatSum([i \in 1..Len(dice_list) |-> dice_list[i][c]]), Len(dice_list))]

\* train_cls_dice.mean()
Mean(v) == RatDiv(RatSum(v), Len(v))

\* ------------------------------------------------------------- initial states
NoTensor  == [kind |-> Tensor, rows |-> <<>>]
NoBatch   == [image |-> <<>>, label_prob |-> <<>>]
NoCounts  == [next_lab |-> 0, next_unlab |-> 0, iter_lab |-> 0, iter_unlab |-> 0,
              zero_grad |-> 0, forward |-> 0, loss |-> 0, backward |-> 0,
              optimizer_step |-> 0, scheduler_step |-> 0]
NoScalers == [loss |-> <<0, 1>>]
NoCall    == [w0 |-> 0, current |-> 0, rampup_length |-> 0, result |-> 0,
              called |-> FALSE]

\* the agent after __init__ and create_dataset, before train_valid
Constructed(v, cfg, lab, unlab, n) ==
    /\ variant = v
    /\ config = cfg
    /\ train_loader = lab
    /\ train_loader_unlab = unlab
    /\ net = n
    /\ glob_it = 0
    /\ trainIter = Iter("none")
    /\ trainIter_unlab = Iter("none")
    /\ pc = "init"
    /\ it = 0
    /\ data_lab = NoBatch
    /\ data_unlab = NoBatch
    /\ inputs = <<>>
    /\ outputs = NoTensor
    /\ p0 = NoTensor
    /\ p1 = NoTensor
    /\ loss_sup = 0
    /\ loss_unsup = 0
    /\ ramp_up_length = 0
    /\ consis_w = 0
    /\ loss = 0
    /\ train_loss = 0
    /\ train_loss_sup = 0
    /\ train_loss_unsup = 0
    /\ train_dice_list = <<>>
    /\ train_scalers = NoScalers
    /\ calls = <<>>
    /\ counts = NoCounts
    /\ steps = <<>>

NoSection == Section({}, <<>>)

\* Spec: default weights; data sets, batch sizes, classes, steps per epoch,
\* epochs and the network's output structure vary
Init ==
    /\ fn = NoCall
    /\ \E v \in {SSL, WSL}, class_num \in 1..MaxClass, iter_valid \in 1..MaxIterValid,
          epochs \in 1..MaxEpochs, d0 \in 1..MaxData, b0 \in 1..MaxBatch,
          d1 \in 1..MaxData, b1 \in 1..MaxBatch, kind \in {Tensor, Tuple},
          seed \in 0..1 :
          /\ v = WSL => d1 = 1 /\ b1 = 1
          /\ Constructed(v,
                 MakeConfig(v, class_num, iter_valid, epochs * iter_valid, NoSection),
                 DataLoader(LabeledSample(0), d0, b0),
                 IF v = SSL THEN DataLoader(UnlabeledSample(0), d1, b1) ELSE <<>>,
                 [kind |-> kind, seed |-> seed, version |-> 0])

Weights    == {Unset, 0, WUnit \div 10, WUnit \div 5}
IterSups   == {Unset} \cup 0..MaxIterSup
RampLengths == {Unset, None} \cup 0..MaxRamp

\* SpecSched: one sample per batch, one class; the weight schedule's
\* configuration, the steps per epoch and the total steps vary
InitSched ==
    /\ fn = NoCall
    /\ \E v \in {SSL, WSL}, iter_valid \in 1..MaxIterValid, iter_max \in 1..MaxIterMax,
          w \in Weights, s \in IterSups, r \in RampLengths :
          Constructed(v,
              MakeConfig(v, 1, iter_valid, iter_max,
                  Section({WeightKey(v), "iter_sup", "ramp_up_length"},
                          [k \in {WeightKey(v), "iter_sup", "ramp_up_length"} |->
                              IF k = "iter_sup" THEN s
                              ELSE IF k = "ramp_up_length" THEN r ELSE w])),
              DataLoader(LabeledSample(0), 1, 1),
              IF v = SSL THEN DataLoader(UnlabeledSample(0), 1, 1) ELSE <<>>,
              [kind |-> Tensor, seed |-> 0, version |-> 0])

\* SpecRampup: one call of the ramp-up function on any arguments
InitRampup ==
    /\ \E w0 \in Weights \ {Unset}, current \in (0 - MaxStep)..MaxStep,
          rampup_length \in {None} \cup 0..MaxRamp :
          fn = [w0 |-> w0, current |-> current, rampup_length |-> rampup_length,
                result |-> 0, called |-> FALSE]
    /\ Constructed(SSL, MakeConfig(SSL, 1, 1, 1, NoSection),
                   DataLoader(LabeledSample(0), 1, 1),
                   DataLoader(UnlabeledSample(0), 1, 1),
                   [kind |-> Tensor, seed |-> 0, version |-> 0])

\* ------------------------------------------------------------- mocks
\* a mock is called: the call is logged for the step and counted for the epoch
Called(log, name) == Append(log, name)
Counted(c, name)  == [c EXCEPT ![name] = @ + 1]

Loader(name) == IF name = "train_loader" THEN train_loader ELSE train_loader_unlab

\* a slip: the unlabeled cursor is restarted over the labeled loader
NextOrRestart_wrong_loader(cursor, name) ==
    IF cursor.pos < Len(Loader(cursor.loader))
    THEN [cursor |-> [cursor EXCEPT !.pos = @ + 1],
          batch  |-> Loader(cursor.loader)[cursor.pos + 1],
          fresh  |-> 0, error |-> ""]
    ELSE [cursor |-> [loader |-> "train_loader", pos |-> 1],
          batch  |-> Loader("train_loader")[1],
          fresh  |-> 1, error |-> ""]

\* try: next(cursor) / except StopIteration: cursor = iter(loader); next(cursor).
\* The result: the cursor afterwards, the batch, whether a fresh iterator was
\* made, and the exception that leaves the statement, if any.
NextOrRestart(cursor, name) ==
    IF cursor.pos < Len(Loader(cursor.loader))
    THEN [cursor |-> [cursor EXCEPT !.pos = @ + 1],
          batch  |-> Loader(cursor.loader)[cursor.pos + 1],
          fresh  |-> 0, error |-> ""]
    ELSE IF Len(Loader(name)) > 0
    THEN [cursor |-> [loader |-> name, pos |-> 1],
          batch  |-> Loader(name)[1],
          fresh  |-> 1, error |-> ""]
    ELSE [cursor |-> Iter(name), batch |-> <<>>, fresh |-> 1,
          error  |-> "StopIteration"]

\* ------------------------------------------------------------- the driver
\* SegmentationAgent.train_valid, up to its first call of training()
super_train_valid ==
    /\ trainIter' = Iter("train_loader")
    /\ glob_it' = 0
    /\ pc' = IF 0 < config.training.iter_max THEN "training" ELSE "finished"

\* SSLSegAgent.train_valid
SSL_train_valid ==
    /\ pc = "init" /\ variant = SSL
    /\ trainIter_unlab' = Iter("train_loader_unlab")
    /\ super_train_valid
    /\ UNCHANGED <<cfgVars, net, it, localVars, accVars, train_scalers, mockVars, fn>>

\* WSL_MumfordShah inherits train_valid
WSL_train_valid ==
    /\ pc = "init" /\ variant = WSL
    /\ super_train_valid
    /\ UNCHANGED <<cfgVars, net, trainIter_unlab, it, localVars, accVars,
                   train_scalers, mockVars, fn>>

\* SegmentationAgent.train_valid, after training() has returned:
\* self.glob_it = it + iter_valid, and the next round of range(0, iter_max, iter_valid)
train_valid_next ==
    /\ pc = "returned"
    /\ glob_it' = glob_it + config.training.iter_valid
    /\ pc' = IF glob_it + config.training.iter_valid < config.training.iter_max
             THEN "training" ELSE "finished"
    /\ UNCHANGED <<cfgVars, net, iterVars, it, localVars, accVars, train_scalers,
                   mockVars, fn>>

\* ------------------------------------------------------------- training(): entry
\* the accumulators are cleared (both variants), and range(iter_valid) starts
EnterTraining ==
    /\ train_loss' = 0
    /\ train_loss_sup' = 0
    /\ train_loss_unsup' = 0
    /\ train_dice_list' = <<>>
    /\ it' = 0
    /\ calls' = <<>>
    /\ counts' = NoCounts
    /\ steps' = <<>>
    /\ pc' = IF 0 < config.training.iter_valid THEN "next_lab" ELSE "reduce"
    /\ UNCHANGED <<cfgVars, net, glob_it, iterVars, localVars, train_scalers, fn>>

SSL_training_enter == pc = "training" /\ variant = SSL /\ EnterTraining
WSL_training_enter == pc = "training" /\ variant = WSL /\ EnterTraining

\* ------------------------------------------------------------- training(): batches
\* data_lab = next(self.trainIter), with restart
SSL_next_lab ==
    /\ pc = "next_lab" /\ variant = SSL
    /\ LET r == NextOrRestart(trainIter, "train_loader")
       IN  /\ trainIter' = r.cursor
           /\ counts' = [counts EXCEPT !.next_lab = @ + (IF r.error = "" THEN 1 ELSE 0),
                                       !.iter_lab = @ + r.fresh]
           /\ IF r.error = ""
              THEN /\ data_lab' = [image |-> r.batch,
                                   label_prob |-> [i \in DOMAIN r.batch |->
                                       LabelOf(r.batch[i], config.network.class_num)]]
                   /\ calls' = <<"next_lab">>
                   /\ pc' = "next_unlab"
              ELSE /\ UNCHANGED <<data_lab, calls>>
                   /\ pc' = r.error
    /\ UNCHANGED <<cfgVars, net, glob_it, trainIter_unlab, it, data_unlab, inputs,
                   outputs, p0, p1, loss_sup, loss_unsup, ramp_up_length,
                   consis_w, loss, accVars, train_scalers, steps, fn>>

\* data_unlab = next(self.trainIter_unlab), with restart
SSL_next_unlab ==
    /\ pc = "next_unlab" /\ variant = SSL
    /\ LET r == NextOrRestart(trainIter_unlab, "train_loader_unlab")
       IN  /\ trainIter_unlab' = r.cursor
           /\ counts' = [counts EXCEPT !.next_unlab = @ + (IF r.error = "" THEN 1 ELSE 0),
                                       !.iter_unlab = @ + r.fresh]
           /\ IF r.error = ""
              THEN /\ data_unlab' = [image |-> r.batch, label_prob |-> <<>>]
                   /\ calls' = Called(calls, "next_unlab")
                   /\ pc' = "zero_grad"
              ELSE /\ UNCHANGED <<data_unlab, calls>>
                   /\ pc' = r.error
    /\ UNCHANGED <<cfgVars, net, glob_it, trainIter, it, data_lab, inputs,
                   outputs, p0, p1, loss_sup, loss_unsup, ramp_up_length,
                   consis_w, loss, accVars, train_scalers, steps, fn>>

\* data = next(self.trainIter), with restart
WSL_next ==
    /\ pc = "next_lab" /\ variant = WSL
    /\ LET r == NextOrRestart(trainIter, "train_loader")
       IN  /\ trainIter' = r.cursor
           /\ counts' = [counts EXCEPT !.next_lab = @ + (IF r.error = "" THEN 1 ELSE 0),
                                       !.iter_lab = @ + r.fresh]
           /\ IF r.error = ""
              THEN /\ data_lab' = [image |-> r.batch,
                                   label_prob |-> [i \in DOMAIN r.batch |->
                                       LabelOf(r.batch[i], config.network.class_num)]]
                   /\ calls' = <<"next_lab">>
                   /\ pc' = "zero_grad"
              ELSE /\ UNCHANGED <<data_lab, calls>>
                   /\ pc' = r.error
    /\ UNCHANGED <<cfgVars, net, glob_it, trainIter_unlab, it, data_unlab, inputs,
                   outputs, p0, p1, loss_sup, loss_unsup, ramp_up_length,
                   consis_w, loss, accVars, train_scalers, steps, fn>>

\* ------------------------------------------------------------- the weight
\* ramp_up_length = ssl_cfg.get('ramp_up_length', iter_max), default dropped
SSL_ramp_up_length_no_default ==
    Get(config.semi_supervised_learning, "ramp_up_length", None)

\* ramp_up_length = ssl_cfg.get('ramp_up_length', iter_max)
SSL_ramp_up_length ==
    Get(config.semi_supervised_learning, "ramp_up_length", config.training.iter_max)

\* the gate on iter_sup left out
SSL_consis_w_no_gate ==
    get_consistency_weight_with_rampup(
        Get(config.semi_supervised_learning, "consis_w", WUnit \div 10),
        glob_it, SSL_ramp_up_length)

\* the schedule read at the step inside the epoch, glob_it + it
SSL_consis_w_per_step ==
    LET consis_w0 == Get(config.semi_supervised_learning, "consis_w", WUnit \div 10)
        iter_sup  == Get(config.semi_supervised_learning, "iter_sup", 0)
        w == get_consistency_weight_with_rampup(consis_w0, glob_it + it,
                                                SSL_ramp_up_length)
    IN  IF glob_it + it < iter_sup THEN 0 ELSE w

\* consis_w: the ramped weight, forced to 0.0 below iter_sup
SSL_consis_w ==
    LET consis_w0 == Get(config.semi_supervised_learning, "consis_w", WUnit \div 10)
        iter_sup  == Get(config.semi_supervised_learning, "iter_sup", 0)
        w == get_consistency_weight_with_rampup(consis_w0, glob_it, SSL_ramp_up_length)
    IN  IF glob_it < iter_sup THEN 0 ELSE w

\* ramp_up_length = wsl_cfg.get('ramp_up_length', iter_max)
WSL_ramp_up_length ==
    Get(config.weakly_supervised_learning, "ramp_up_length", config.training.iter_max)

\* the gate written with >= instead of >
WSL_regular_w_ge ==
    IF glob_it >= Get(config.weakly_supervised_learning, "iter_sup", 0)
    THEN LET w == Get(config.weakly_supervised_learning, "regularize_w", WUnit \div 10)
         IN  IF WSL_ramp_up_length # None /\ glob_it < WSL_ramp_up_length
             THEN FMul(w, sigmoid_rampup(glob_it, WSL_ramp_up_length))
             ELSE w
    ELSE 0

\* regular_w: 0.0 unless glob_it > iter_sup, ramped while glob_it < ramp_up_length
WSL_regular_w ==
    IF glob_it > Get(config.weakly_supervised_learning, "iter_sup", 0)
    THEN LET w == Get(config.weakly_supervised_learning, "regularize_w", WUnit \div 10)
         IN  IF WSL_ramp_up_length # None /\ glob_it < WSL_ramp_up_length
             THEN FMul(w, sigmoid_rampup(glob_it, WSL_ramp_up_length))
             ELSE w
    ELSE 0

\* ------------------------------------------------------------- training(): one step
\* x0, y0, x1, inputs = torch.cat([x0, x1]); self.optimizer.zero_grad()
SSL_zero_grad ==
    /\ pc = "zero_grad" /\ variant = SSL
    /\ inputs' = data_lab.image \o data_unlab.image
    /\ calls' = Called(calls, "zero_grad")
    /\ counts' = Counted(counts, "zero_grad")
    /\ pc' = "forward"
    /\ UNCHANGED <<cfgVars, net, glob_it, iterVars, it, data_lab, data_unlab,
                   outputs, p0, p1, loss_sup, loss_unsup, ramp_up_length, consis_w,
                   loss, accVars, train_scalers, steps, fn>>

\* the split taken at the size of the unlabeled batch
SplitPoint_unlab == Len(data_unlab.image)

\* n0 = list(x0.shape)[0]
SplitPoint == Len(data_lab.image)

\* outputs = self.net(inputs); p0, p1 = torch.tensor_split(outputs, [n0,])
SSL_forward ==
    /\ pc = "forward" /\ variant = SSL
    /\ LET out == NetForward(net, inputs, config.network.class_num)
           sp  == tensor_split(out, SplitPoint)
       IN  /\ outputs' = out
           /\ IF sp.error = ""
              THEN p0' = sp.parts[1] /\ p1' = sp.parts[2] /\ pc' = "loss"
              ELSE UNCHANGED <<p0, p1>> /\ pc' = sp.error
    /\ calls' = Called(calls, "forward")
    /\ counts' = Counted(counts, "forward")
    /\ UNCHANGED <<cfgVars, net, glob_it, iterVars, it, data_lab, data_unlab,
                   inputs, loss_sup, loss_unsup, ramp_up_length, consis_w, loss,
                   accVars, train_scalers, steps, fn>>

\* loss_sup = self.get_loss_value(data_lab, x0, p0, y0)
SSL_loss_sup == get_loss_value(p0, data_lab.label_prob)

\* loss_sup, loss_unsup, the weight, loss = loss_sup + consis_w*loss_unsup
SSL_loss ==
    /\ pc = "loss" /\ variant = SSL
    /\ loss_sup' = SSL_loss_sup
    /\ loss_unsup' = EntropyLoss(outputs)
    /\ ramp_up_length' = SSL_ramp_up_length
    /\ consis_w' = SSL_consis_w
    /\ loss' = SSL_loss_sup + FMul(SSL_consis_w, EntropyLoss(outputs))
    /\ calls' = Called(calls, "loss")
    /\ counts' = Counted(counts, "loss")
    /\ pc' = "backward"
    /\ UNCHANGED <<cfgVars, net, glob_it, iterVars, it, data_lab, data_unlab,
                   inputs, outputs, p0, p1, accVars, train_scalers, steps, fn>>

\* loss.backward()
Backward ==
    /\ calls' = Called(calls, "backward")
    /\ counts' = Counted(counts, "backward")
    /\ pc' = "optimizer_step"
    /\ UNCHANGED <<cfgVars, net, glob_it, iterVars, it, localVars, accVars,
                   train_scalers, steps, fn>>

\* self.optimizer.step(): the network's parameters change
OptimizerStep ==
    /\ net' = [net EXCEPT !.version = @ + 1]
    /\ calls' = Called(calls, "optimizer_step")
    /\ counts' = Counted(counts, "optimizer_step")
    /\ pc' = "scheduler_step"
    /\ UNCHANGED <<cfgVars, glob_it, iterVars, it, localVars, accVars,
                   train_scalers, steps, fn>>

\* the scheduler is left out of a step
SchedulerStep_skipped ==
    /\ pc' = "accumulate"
    /\ UNCHANGED <<cfgVars, net, glob_it, iterVars, it, localVars, accVars,
                   train_scalers, mockVars, fn>>

\* self.scheduler.step()
SchedulerStep ==
    /\ calls' = Called(calls, "scheduler_step")
    /\ counts' = Counted(counts, "scheduler_step")
    /\ pc' = "accumulate"
    /\ UNCHANGED <<cfgVars, net, glob_it, iterVars, it, localVars, accVars,
                   train_scalers, steps, fn>>

SSL_backward       == pc = "backward" /\ variant = SSL /\ Backward
SSL_optimizer_step == pc = "optimizer_step" /\ variant = SSL /\ OptimizerStep
SSL_scheduler_step == pc = "scheduler_step" /\ variant = SSL /\ SchedulerStep

\* what the mocks saw a finished step apply
StepRecord(dice) ==
    [glob_it |-> glob_it, consis_w |-> consis_w, loss |-> loss,
     loss_sup |-> loss_sup, loss_unsup |-> loss_unsup, dice |-> dice]

\* the sums, the step's Dice vector, and the next round of range(iter_valid)
Accumulate(dice) ==
    /\ train_loss' = train_loss + loss
    /\ train_loss_sup' = train_loss_sup + loss_sup
    /\ train_loss_unsup' = train_loss_unsup + loss_unsup
    /\ train_dice_list' = Append(train_dice_list, dice)
    /\ steps' = Append(steps, StepRecord(dice))
    /\ it' = it + 1
    /\ pc' = IF it + 1 < config.training.iter_valid THEN "next_lab" ELSE "reduce"
    /\ UNCHANGED <<cfgVars, net, glob_it, iterVars, localVars, train_scalers,
                   calls, counts, fn>>

\* p0 is one tensor here; were it a tuple or list, p0[0] would be taken
SSL_dice_list ==
    get_classwise_dice(Primary(p0), data_lab.label_prob, config.network.class_num)

SSL_accumulate == pc = "accumulate" /\ variant = SSL /\ Accumulate(SSL_dice_list)

\* a sum divided by one more than the steps of the epoch
EpochMean_off_by_one(total) == TrueDiv(total, config.training.iter_valid + 1)

\* train_loss / iter_valid
EpochMean(total) == TrueDiv(total, config.training.iter_valid)

\* the epoch's means and the returned record
SSL_reduce ==
    /\ pc = "reduce" /\ variant = SSL
    /\ LET train_cls_dice == MeanAxis0(train_dice_list, config.network.class_num)
       IN  train_scalers' =
               [loss       |-> EpochMean(train_loss),
                loss_sup   |-> EpochMean(train_loss_sup),
                loss_unsup |-> EpochMean(train_loss_unsup),
                consis_w   |-> consis_w,
                avg_dice   |-> Mean(train_cls_dice),
                class_dice |-> train_cls_dice]
    /\ pc' = "returned"
    /\ UNCHANGED <<cfgVars, net, glob_it, iterVars, it, localVars, accVars,
                   mockVars, fn>>

\* ------------------------------------------------------------- the weak variant
\* inputs, y; self.optimizer.zero_grad()
WSL_zero_grad ==
    /\ pc = "zero_grad" /\ variant = WSL
    /\ inputs' = data_lab.image
    /\ calls' = Called(calls, "zero_grad")
    /\ counts' = Counted(counts, "zero_grad")
    /\ pc' = "forward"
    /\ UNCHANGED <<cfgVars, net, glob_it, iterVars, it, data_lab, data_unlab,
                   outputs, p0, p1, loss_sup, loss_unsup, ramp_up_length, consis_w,
                   loss, accVars, train_scalers, steps, fn>>

\* outputs = self.net(inputs)
WSL_forward ==
    /\ pc = "forward" /\ variant = WSL
    /\ outputs' = NetForward(net, inputs, config.network.class_num)
    /\ calls' = Called(calls, "forward")
    /\ counts' = Counted(counts, "forward")
    /\ pc' = "loss"
    /\ UNCHANGED <<cfgVars, net, glob_it, iterVars, it, data_lab, data_unlab,
                   inputs, p0, p1, loss_sup, loss_unsup, ramp_up_length, consis_w,
                   loss, accVars, train_scalers, steps, fn>>

\* loss_sup, loss_reg, the weight, loss = loss_sup + regular_w*loss_reg
WSL_loss ==
    /\ pc = "loss" /\ variant = WSL
    /\ loss_sup' = get_loss_value(outputs, data_lab.label_prob)
    /\ loss_unsup' = MumfordShahLoss(outputs, inputs)
    /\ ramp_up_length' = WSL_ramp_up_length
    /\ consis_w' = WSL_regular_w
    /\ loss' = get_loss_value(outputs, data_lab.label_prob)
               + FMul(WSL_regular_w, MumfordShahLoss(outputs, inputs))
    /\ calls' = Called(calls, "loss")
    /\ counts' = Counted(counts, "loss")
    /\ pc' = "backward"
    /\ UNCHANGED <<cfgVars, net, glob_it, iterVars, it, data_lab, data_unlab,
                   inputs, outputs, p0, p1, accVars, train_scalers, steps, fn>>

WSL_backward       == pc = "backward" /\ variant = WSL /\ Backward
WSL_optimizer_step == pc = "optimizer_step" /\ variant = WSL /\ OptimizerStep
WSL_scheduler_step == pc = "scheduler_step" /\ variant = WSL /\ SchedulerStep

\* outputs = outputs[0] when the network returned a tuple or list
WSL_dice_list ==
    get_classwise_dice(Primary(outputs), data_lab.label_prob, config.network.class_num)

WSL_accumulate == pc = "accumulate" /\ variant = WSL /\ Accumulate(WSL_dice_list)

\* the epoch's means and the returned record
WSL_reduce ==
    /\ pc = "reduce" /\ variant = WSL
    /\ LET train_cls_dice == MeanAxis0(train_dice_list, config.network.class_num)
       IN  train_scalers' =
               [loss       |-> EpochMean(train_loss),
                loss_sup   |-> EpochMean(train_loss_sup),
                loss_reg   |-> EpochMean(train_loss_unsup),
                regular_w  |-> consis_w,
                avg_dice   |-> Mean(train_cls_dice),
                class_dice |-> train_cls_dice]
    /\ pc' = "returned"
    /\ UNCHANGED <<cfgVars, net, glob_it, iterVars, it, localVars, accVars,
                   mockVars, fn>>

\* ------------------------------------------------------------- the ramp-up alone
\* one call of get_consistency_weight_with_rampup on the arguments in fn
CallRampup ==
    /\ ~fn.called
    /\ fn' = [fn EXCEPT !.called = TRUE,
                        !.result = get_consistency_weight_with_rampup(
                                       fn.w0, fn.current, fn.rampup_length)]
    /\ UNCHANGED <<cfgVars, net, glob_it, iterVars, pc, it, localVars, accVars,
                   train_scalers, mockVars>>

\* ------------------------------------------------------------- specifications
Next ==
    \/ SSL_train_valid
    \/ WSL_train_valid
    \/ train_valid_next
    \/ SSL_training_enter
    \/ WSL_training_enter
    \/ SSL_next_lab
    \/ SSL_next_unlab
    \/ WSL_next
    \/ SSL_zero_grad
    \/ SSL_forward
    \/ SSL_loss
    \/ SSL_backward
    \/ SSL_optimizer_step
    \/ SSL_scheduler_step
    \/ SSL_accumulate
    \/ SSL_reduce
    \/ WSL_zero_grad
    \/ WSL_forward
    \/ WSL_loss
    \/ WSL_backward
    \/ WSL_optimizer_step
    \/ WSL_scheduler_step
    \/ WSL_accumulate
    \/ WSL_reduce

Spec == Init /\ [][Next]_vars

SpecSched == InitSched /\ [][Next]_vars

NextRampup == CallRampup

SpecRampup == InitRampup /\ [][NextRampup]_vars

\* ------------------------------------------------------------- properties
\* the locals of the current step hold what the step computed
AfterLoss == {"backward", "optimizer_step", "scheduler_step", "accumulate"}
MidStep   == {"next_unlab", "zero_grad", "forward", "loss", "TypeError"} \cup AfterLoss
Configured(key, default) == Get(SectionOf(config), key, default)

\* C1: in the semi-supervised variant, at every step whose global step is below
\* iter_sup, the weight applied in loss = loss_sup + weight * loss_unsup is 0,
\* whatever the base weight and the ramp-up length (unset, None, 0, short).
C1_GateBelowIterSup ==
    (variant = SSL /\ glob_it < Configured("iter_sup", 0)) =>
        /\ pc \in AfterLoss => consis_w = 0 /\ loss = loss_sup
        /\ \A i \in DOMAIN steps : steps[i].consis_w = 0

\* a step below iter_sup whose schedule alone would give the full base weight
C1_Witness ==
    /\ variant = SSL /\ pc = "backward"
    /\ glob_it = 1 /\ Configured("iter_sup", 0) = 2
    /\ Configured("consis_w", 0) = WUnit \div 5
    /\ Configured("ramp_up_length", Unset) = 0
    /\ loss_unsup > 0
    /\ consis_w = 0

\* C2: in the weakly-supervised variant the applied weight is nonzero only if
\* the global step is strictly greater than iter_sup: it is 0 at
\* glob_it = iter_sup, and nonzero at glob_it = iter_sup + 1 for a nonzero base
\* weight, whatever the ramp-up length.
C2_GateStrictlyAbove ==
    (variant = WSL /\ pc \in AfterLoss) =>
        /\ consis_w # 0 => glob_it > Configured("iter_sup", 0)
        /\ glob_it = Configured("iter_sup", 0) => consis_w = 0
        /\ (glob_it = Configured("iter_sup", 0) + 1
            /\ Configured("regularize_w", WUnit \div 10) # 0) => consis_w # 0

\* the first step above iter_sup, inside the ramp
C2_Witness ==
    /\ variant = WSL /\ pc = "backward"
    /\ Configured("iter_sup", 0) = 1 /\ glob_it = 2
    /\ ramp_up_length = 3
    /\ consis_w > 0 /\ consis_w < Configured("regularize_w", WUnit \div 10)

\* C4: with rampup_length None or 0 the ramp-up function returns w0 unchanged
\* for every step, negative, zero or positive; nothing is divided by the
\* length (a division by 0 would leave nan, not w0).
C4_NoRampReturnsBase ==
    (fn.called /\ fn.rampup_length \in {None, 0}) => fn.result = fn.w0

\* a call with length 0 at a negative step
C4_Witness ==
    /\ fn.called /\ fn.rampup_length = 0 /\ fn.current < 0
    /\ fn.w0 = WUnit \div 5 /\ fn.result = WUnit \div 5

\* the ramp length a step is expected to use
ExpectedRampLength ==
    IF "ramp_up_length" \in DOMAIN SectionOf(config)
    THEN SectionOf(config).ramp_up_length ELSE config.training.iter_max

\* the weight a step is expected to apply with ramp length len
ExpectedWeight(len) ==
    IF variant = SSL
    THEN IF glob_it < Configured("iter_sup", 0) THEN 0
         ELSE get_consistency_weight_with_rampup(
                  Configured("consis_w", WUnit \div 10), glob_it, len)
    ELSE IF glob_it > Configured("iter_sup", 0)
         THEN IF len # None /\ glob_it < len
              THEN FMul(Configured("regularize_w", WUnit \div 10),
                        sigmoid_rampup(glob_it, len))
              ELSE Configured("regularize_w", WUnit \div 10)
         ELSE 0

\* C8: when ramp_up_length is unset in the variant's section, the ramp length
\* of the weight schedule is training.iter_max, in both variants; a
\* ramp_up_length that is set is used as given.
C8_RampLengthDefault ==
    pc \in AfterLoss =>
        /\ ramp_up_length = ExpectedRampLength
        /\ consis_w = ExpectedWeight(ExpectedRampLength)

\* ramp_up_length unset, and the weight part-way up a ramp of iter_max steps
C8_Witness ==
    /\ pc = "backward" /\ variant = WSL
    /\ "ramp_up_length" \notin DOMAIN SectionOf(config)
    /\ config.training.iter_max = 3 /\ ramp_up_length = 3
    /\ glob_it = 1
    /\ consis_w > 0 /\ consis_w < Configured("regularize_w", WUnit \div 10)

\* the weight the returned record stores
StoredWeight == IF variant = SSL THEN train_scalers.consis_w ELSE train_scalers.regular_w

\* C10: training() never changes glob_it, so every step of an epoch applies the
\* same weight, and the weight in the returned record is the weight applied at
\* every step of that epoch.
C10_OneWeightPerEpoch ==
    /\ pc \in MidStep \cup {"next_lab", "reduce", "returned"} =>
          \A i \in DOMAIN steps :
              /\ steps[i].glob_it = glob_it
              /\ steps[i].consis_w = steps[1].consis_w
    /\ pc \in AfterLoss => \A i \in DOMAIN steps : steps[i].consis_w = consis_w
    /\ pc = "returned" => \A i \in DOMAIN steps : steps[i].consis_w = StoredWeight

\* a later epoch of two steps returns, its weight part-way up the ramp
C10_Witness ==
    /\ pc = "returned" /\ variant = SSL
    /\ Len(steps) = 2 /\ glob_it = 2
    /\ ramp_up_length = 3
    /\ StoredWeight > 0 /\ StoredWeight < Configured("consis_w", WUnit \div 10)

\* the calls of the current step to network, optimizer, scheduler and loss
IsStepCall(name) == name \notin {"next_lab", "next_unlab"}
StepCalls == SelectSeq(calls, IsStepCall)
StepOrder == <<"zero_grad", "forward", "loss", "backward", "optimizer_step",
               "scheduler_step">>
IsPrefix(a, b) == Len(a) <= Len(b) /\ a = SubSeq(b, 1, Len(a))

\* C3: in the semi-supervised variant, whatever the two loaders' lengths and
\* the steps per epoch, over consecutive epochs: each step pulls one labeled
\* batch and then one unlabeled batch, an exhausted cursor is replaced by a
\* fresh iterator over the same loader, exhaustion never raises or stalls, and
\* an epoch pulls iter_valid batches from each stream.
C3_DualStream ==
    (variant = SSL /\ pc # "init") =>
        /\ pc # "StopIteration"
        /\ pc = "next_lab" => ENABLED SSL_next_lab
        /\ pc = "next_unlab" => ENABLED SSL_next_unlab
        /\ trainIter.loader = "train_loader"
        /\ trainIter_unlab.loader = "train_loader_unlab"
        /\ trainIter.pos <= Len(train_loader)
        /\ trainIter_unlab.pos <= Len(train_loader_unlab)
        /\ pc \in MidStep =>
              /\ calls[1] = "next_lab"
              /\ counts.next_lab = Len(steps) + 1
              /\ data_lab.image = train_loader[trainIter.pos]
        /\ pc \in MidStep \ {"next_unlab"} =>
              /\ calls[2] = "next_unlab"
              /\ counts.next_unlab = Len(steps) + 1
              /\ data_unlab.image = train_loader_unlab[trainIter_unlab.pos]
        /\ pc \in {"next_lab", "next_unlab"} => counts.next_unlab = Len(steps)
        /\ pc = "next_lab" => counts.next_lab = Len(steps)
        /\ pc \in {"reduce", "returned"} =>
              /\ counts.next_lab = config.training.iter_valid
              /\ counts.next_unlab = config.training.iter_valid

\* a later epoch in which the unlabeled cursor was restarted more than once
C3_Witness ==
    /\ variant = SSL /\ pc = "returned" /\ glob_it > 0
    /\ Len(train_loader_unlab) < config.training.iter_valid
    /\ Len(train_loader) > Len(train_loader_unlab)
    /\ counts.iter_unlab >= 2
    /\ counts.next_unlab = config.training.iter_valid

\* C5: in every training step of both variants zero-grad, forward, loss,
\* backward, optimizer step and scheduler step are each called once, in that
\* order; no step is retried or skipped, so an epoch of iter_valid steps has
\* called each of them iter_valid times.
C5_OncePerStepInOrder ==
    /\ IsPrefix(StepCalls, StepOrder)
    /\ pc \in {"accumulate", "reduce", "returned"} => StepCalls = StepOrder
    /\ \A i \in DOMAIN StepOrder :
          counts[StepOrder[i]] =
              Len(steps) + (IF pc \in MidStep /\ i <= Len(StepCalls) THEN 1 ELSE 0)
    /\ pc \in {"reduce", "returned"} =>
          /\ Len(steps) = config.training.iter_valid
          /\ \A i \in DOMAIN StepOrder :
                counts[StepOrder[i]] = config.training.iter_valid

\* a later epoch of several steps has returned
C5_Witness ==
    /\ pc = "returned" /\ glob_it > 0
    /\ config.training.iter_valid >= 2
    /\ counts.backward = config.training.iter_valid
    /\ net.version = 2 * config.training.iter_valid

\* the rows the network computes for a batch of samples, as it stands
RowsOf(xs) == [i \in 1..Len(xs) |-> NetRow(net, xs[i], config.network.class_num)]

\* C6: the input of a semi-supervised step is the labeled batch followed by
\* the unlabeled batch; the output split at N0 gives p0, the N0 outputs of the
\* labeled inputs in order, and p1, the N1 outputs of the unlabeled inputs in
\* order; the supervised loss is computed from p0 and y0 only, the entropy
\* loss from the whole output.
C6_MixedBatchSplit ==
    (variant = SSL /\ pc \in {"loss"} \cup AfterLoss) =>
        /\ inputs = data_lab.image \o data_unlab.image
        /\ Len(outputs.rows) = Len(data_lab.image) + Len(data_unlab.image)
        /\ Len(p0.rows) = Len(data_lab.image)
        /\ Len(p1.rows) = Len(data_unlab.image)
        /\ \A i \in DOMAIN p0.rows : p0.rows[i].of = data_lab.image[i]
        /\ \A i \in DOMAIN p1.rows : p1.rows[i].of = data_unlab.image[i]
        /\ p0.rows \o p1.rows = outputs.rows
        /\ pc = "backward" =>
              /\ p0.rows = RowsOf(data_lab.image)
              /\ p1.rows = RowsOf(data_unlab.image)
              /\ loss_sup = SegLoss(RowsOf(data_lab.image), data_lab.label_prob)
              /\ loss_unsup = EntropyLoss([kind |-> Tensor,
                                  rows |-> RowsOf(data_lab.image \o data_unlab.image)])

\* batches of different sizes, where the whole output and its parts give
\* different losses
C6_Witness ==
    /\ variant = SSL /\ pc = "backward"
    /\ Len(data_lab.image) = 2 /\ Len(data_unlab.image) = 1
    /\ loss_sup # get_loss_value(outputs, data_lab.label_prob)
    /\ loss_unsup # EntropyLoss(p1)
    /\ loss_unsup # EntropyLoss(p0)

\* C7: when the network returns a tuple or list of prediction tensors, a
\* training step of either variant completes, and the per-class Dice is
\* computed from the first element only.
C7_MultiHeadStepCompletes ==
    net.kind = Tuple =>
        /\ pc # "TypeError"
        /\ \A i \in DOMAIN train_dice_list : Len(train_dice_list[i]) = config.network.class_num
        /\ pc \in AfterLoss =>
              get_classwise_dice(outputs.heads[1], data_lab.label_prob,
                                 config.network.class_num)
              = (IF variant = SSL THEN SSL_dice_list ELSE WSL_dice_list)

RECURSIVE IntSum(_)
IntSum(xs) == IF xs = <<>> THEN 0 ELSE xs[1] + IntSum(Tail(xs))

\* the auxiliary loss's name in the returned record
StoredAuxLoss == IF variant = SSL THEN train_scalers.loss_unsup ELSE train_scalers.loss_reg

\* C9: for K classes and I = iter_valid steps, the returned loss, loss_sup and
\* auxiliary loss are the sums of the per-step values divided by I, class_dice
\* has length K with entry c the mean over the steps of the step's Dice of
\* class c, and avg_dice is the mean of class_dice.
C9_EpochAggregation ==
    pc = "returned" =>
        LET I == config.training.iter_valid
            K == config.network.class_num
        IN  /\ Len(steps) = I
            /\ train_scalers.loss = TrueDiv(IntSum([i \in 1..I |-> steps[i].loss]), I)
            /\ train_scalers.loss_sup
                   = TrueDiv(IntSum([i \in 1..I |-> steps[i].loss_sup]), I)
            /\ StoredAuxLoss = TrueDiv(IntSum([i \in 1..I |-> steps[i].loss_unsup]), I)
            /\ Len(train_scalers.class_dice) = K
            /\ \A c \in 1..K :
                  train_scalers.class_dice[c]
                      = RatDiv(RatSum([i \in 1..I |-> steps[i].dice[c]]), I)
            /\ train_scalers.avg_dice = RatDiv(RatSum(train_scalers.class_dice), K)

\* two classes, two steps with different Dice vectors and different losses
C9_Witness ==
    /\ pc = "returned" /\ variant = WSL
    /\ config.network.class_num = 2 /\ config.training.iter_valid = 2
    /\ steps[1].dice # steps[2].dice
    /\ steps[1].loss # steps[2].loss
    /\ steps[1].loss_unsup # steps[2].loss_unsup
    /\ train_scalers.class_dice[1] # train_scalers.class_dice[2]
    /\ train_scalers.avg_dice \notin {<<0, 1>>, <<1, 1>>}

=============================================================================
